---------------------------- MODULE Spec2Model ----------------------------
(***************************************************************************)
(* A model of the Max <-> Telegram bridge (src/app).  The state is the     *)
(* startup configuration, the lifecycle phase of the application, the      *)
(* global Telegram webhook handler, the temporary files on disk, and the   *)
(* request that was answered last together with everything its handling    *)
(* did (the client operations it called, the response it produced).        *)
(*                                                                         *)
(* Python values are modelled as follows.  A string is a TLA+ string.      *)
(* None (and JSON null) in a string-valued position is the string None;    *)
(* a key that is absent from a JSON object is the string Missing.  A JSON  *)
(* value whose type varies (object, null, string, absent) is a record with *)
(* a tag field t.  An exception is the name of its class; NoExc says that  *)
(* nothing was raised.                                                     *)
(***************************************************************************)
EXTENDS Integers, Sequences, FiniteSets, TLC

VARIABLES
    settings,                  \* app.config.settings (immutable after load)
    phase,                     \* "init", "serving", "aborted_raise", "aborted_exit", "stopped"
    telegram_webhook_handler,  \* app.telegram_handlers.telegram_webhook_handler: None or "handler"
    webhook_registered,        \* whether bot.set_webhook succeeded at startup
    temp_files,                \* number of files made by _download_file that still exist
    last                       \* the request answered last and what handling it did, or NoRequest

vars == <<settings, phase, telegram_webhook_handler, webhook_registered, temp_files, last>>

---------------------------------------------------------------------------
(* Values *)

None == "<None>"
Missing == "<missing>"
NoExc == "none"

\* Python truthiness of an Optional[str].
Truthy(s) == s \notin {None, Missing, ""}

\* a or b, for Optional[str] operands.
Or(a, b) == IF Truthy(a) THEN a ELSE b

\* dict.get(key) and dict.get(key, default) on a field that may be Missing.
Get(v) == IF v = Missing THEN None ELSE v
GetD(v, default) == IF v = Missing THEN default ELSE v

\* The bound of the model: how many leaked temporary files the disk may hold.
MaxTempFiles == 1

\* Icons and labels of the outbound texts (ASCII stand-ins for the emoji).
PersonIcon == "(person)"
PhotoLabel == "(camera) Photo"
VideoLabel == "(movie) Video"
DocumentIcon == "(page)"
ClipIcon == "(clip)"
AudioLabel == "(note) Audio"
VoiceLabel == "(mic) Voice message"
FromTelegramLabel == "(envelope) *From Telegram:* "

---------------------------------------------------------------------------
(* Configuration: src/app/config.py *)

SomeInstance == "1101000001"
SomeToken == "tok"
SomeBotToken == "123:abc"
SomeChannel == "@channel"
SomeMaxTarget == "16958332@c.us"
ChatA == "79001234567@c.us"
ChatB == "79007654321@c.us"
ChatAlice99 == "alice99@c.us"
TgChatA == "-1001"
TgChatB == "-1002"
Secret == "s3cret"
WrongSecret == "guess"
TgSecret == "tgs3cret"

SettingsSpace ==
    [ max_instance_id         : {"", SomeInstance},
      max_api_token           : {"", SomeToken},
      telegram_bot_token      : {"", SomeBotToken},
      telegram_channel_id     : {"", SomeChannel},
      max_chat_id             : {None, "", ChatA},
      telegram_webhook_url    : {None, "https://bridge/telegram/webhook"},
      telegram_webhook_secret : {None, TgSecret},
      telegram_chat_id        : {None, TgChatA},
      max_target_chat_id      : {"", SomeMaxTarget},
      enable_max_to_telegram  : BOOLEAN,
      enable_telegram_to_max  : BOOLEAN,
      webhook_secret          : {None, Secret} ]

\* Settings.validate_settings: "raise" (ValueError), or the boolean it returns.
validate_settings_NoConflictCheck(s) ==
    IF ~s.enable_max_to_telegram /\ ~s.enable_telegram_to_max THEN "raise"
    ELSE LET required == <<s.max_instance_id, s.max_api_token, s.telegram_bot_token>>
                         \o (IF s.enable_max_to_telegram THEN <<s.telegram_channel_id>> ELSE <<>>)
                         \o (IF s.enable_telegram_to_max THEN <<s.max_target_chat_id>> ELSE <<>>)
         IN  IF \A i \in DOMAIN required : Truthy(required[i]) THEN "true" ELSE "false"

validate_settings(s) ==
    IF s.enable_max_to_telegram /\ s.enable_telegram_to_max THEN "raise"
    ELSE IF ~s.enable_max_to_telegram /\ ~s.enable_telegram_to_max THEN "raise"
    ELSE LET required == <<s.max_instance_id, s.max_api_token, s.telegram_bot_token>>
                         \o (IF s.enable_max_to_telegram THEN <<s.telegram_channel_id>> ELSE <<>>)
                         \o (IF s.enable_telegram_to_max THEN <<s.max_target_chat_id>> ELSE <<>>)
         IN  IF \A i \in DOMAIN required : Truthy(required[i]) THEN "true" ELSE "false"

---------------------------------------------------------------------------
(* The Telegram client: src/app/telegram_client.py *)

\* Outcomes of a call of the aiogram bot: it returns, it raises a
\* TelegramAPIError, or it raises an exception of another class.
BotOutcomes == {"ok", "api_error", "other_error"}

\* Outcomes of the HTTP download in _download_file: the body is written to the
\* temporary file; the status is not 200; the connection fails before a file
\* is made; reading the body fails after NamedTemporaryFile(delete=False)
\* made the file.
DownloadOutcomes == {"ok", "http_error", "conn_error", "read_error"}

\* The exception a bot call raises under an outcome.
BotRaises(bot) ==
    CASE bot = "api_error"   -> "TelegramAPIError"
      [] bot = "other_error" -> "RuntimeError"
      [] OTHER               -> NoExc

\* The except clause of the four send methods: except TelegramAPIError.
TelegramClient_catches(exc) == exc = "TelegramAPIError"

\* One call of a client operation, as the caller and the world see it.
\*   sent      whether the provider's send primitive was called
\*   transport the outcome of that call ("not_called" when it was not made)
\*   ret, exc  what the operation returned, or the exception it let through
\*   created   temporary files the call made; leaked: those left when it ended
Call(op, dest, sent, target, text, url, filename, transport, ret, exc, created, leaked) ==
    [ op |-> op, dest |-> dest, sent |-> sent, target |-> target, text |-> text,
      url |-> url, filename |-> filename, transport |-> transport,
      ret |-> ret, exc |-> exc, created |-> created, leaked |-> leaked ]

\* _format_message that falls back to the sender's phone when there is no name.
TelegramClient_format_message_PhoneWhenNameless(text, sender_name, sender_phone) ==
    IF Truthy(sender_name)
    THEN PersonIcon \o " <b>" \o sender_name \o "</b>" \o "\n\n" \o text
    ELSE IF Truthy(sender_phone)
    THEN PersonIcon \o " " \o sender_phone \o "\n\n" \o text
    ELSE text

\* _format_message with the sender's phone added to the header.
TelegramClient_format_message_WithPhone(text, sender_name, sender_phone) ==
    IF Truthy(sender_name)
    THEN PersonIcon \o " <b>" \o sender_name \o "</b>"
         \o (IF Truthy(sender_phone) THEN " | " \o sender_phone ELSE "") \o "\n\n" \o text
    ELSE text

\* TelegramClient._format_message: sender_phone is not used.
TelegramClient_format_message(text, sender_name, sender_phone) ==
    IF Truthy(sender_name)
    THEN PersonIcon \o " <b>" \o sender_name \o "</b>" \o "\n\n" \o text
    ELSE text

\* _download_file: the path it returns (None on failure) and the files it made.
TelegramClient_download_file(url, dl) ==
    CASE dl = "ok"         -> [path |-> "/tmp/tmpfile", created |-> 1]
      [] dl = "read_error" -> [path |-> None, created |-> 1]
      [] OTHER             -> [path |-> None, created |-> 0]

TelegramClient_send_text_message(text, sender_name, sender_phone, bot) ==
    LET formatted == TelegramClient_format_message(text, sender_name, sender_phone)
        raised == BotRaises(bot)
    IN  Call("TelegramClient.send_text_message", "telegram", TRUE,
             settings.telegram_channel_id, formatted, None, None, bot,
             raised = NoExc,
             IF raised # NoExc /\ ~TelegramClient_catches(raised) THEN raised ELSE NoExc,
             0, 0)

\* The common body of send_photo, send_video and send_document: format the
\* caption, download, send the file, unlink it after a send that returned.
TelegramClient_send_file(op, url, filename, caption, sender_name, sender_phone, dl, bot) ==
    LET formatted == TelegramClient_format_message(caption, sender_name, sender_phone)
        d == TelegramClient_download_file(url, dl)
        raised == BotRaises(bot)
    IN  IF Truthy(d.path)
        THEN Call(op, "telegram", TRUE, settings.telegram_channel_id, formatted, url,
                  filename, bot,
                  raised = NoExc,
                  IF raised # NoExc /\ ~TelegramClient_catches(raised) THEN raised ELSE NoExc,
                  d.created,
                  IF raised = NoExc THEN d.created - 1 ELSE d.created)
        ELSE Call(op, "telegram", FALSE, settings.telegram_channel_id, formatted, url,
                  filename, "not_called", FALSE, NoExc, d.created, d.created)

TelegramClient_send_photo(photo_url, caption, sender_name, sender_phone, dl, bot) ==
    TelegramClient_send_file("TelegramClient.send_photo", photo_url, None,
                             Or(caption, PhotoLabel), sender_name, sender_phone, dl, bot)

TelegramClient_send_video(video_url, caption, sender_name, sender_phone, dl, bot) ==
    TelegramClient_send_file("TelegramClient.send_video", video_url, None,
                             Or(caption, VideoLabel), sender_name, sender_phone, dl, bot)

\* send_document that formats a given caption only: the default caption
\* goes out without the sender header.
TelegramClient_send_document_BareDefault(document_url, filename, caption, sender_name, sender_phone, dl, bot) ==
    TelegramClient_send_file("TelegramClient.send_document", document_url, filename,
                             Or(caption, DocumentIcon \o " " \o Or(filename, "Document")),
                             IF Truthy(caption) THEN sender_name ELSE None, sender_phone,
                             dl, bot)

TelegramClient_send_document(document_url, filename, caption, sender_name, sender_phone, dl, bot) ==
    TelegramClient_send_file("TelegramClient.send_document", document_url, filename,
                             Or(caption, DocumentIcon \o " " \o Or(filename, "Document")),
                             sender_name, sender_phone, dl, bot)

---------------------------------------------------------------------------
(* JSON values of the webhook payloads *)

JMissing == [t |-> "missing"]
JNull == [t |-> "null"]
JStr(s) == [t |-> "str", v |-> s]

\* Python truthiness of a JSON value: an object with no key, an empty string,
\* null and an absent key (which get turns into None) are falsy.
JTruthy(v) ==
    CASE v.t = "dict" -> \E k \in DOMAIN v : k # "t" /\ v[k] # Missing
      [] v.t = "str"  -> v.v # ""
      [] OTHER        -> FALSE

\* str.replace("@c.us", "") and .replace("@g.us", "") on the identifiers used.
StripSuffix(s) ==
    CASE s = ChatA         -> "79001234567"
      [] s = ChatB         -> "79007654321"
      [] s = SomeMaxTarget -> "16958332"
      [] s = ChatAlice99   -> "alice99"
      [] OTHER             -> s

---------------------------------------------------------------------------
(* The Max -> Telegram receiver: src/app/handlers.py *)

\* The allow-list with a state notification added to it.
AllowedWebhookTypes_WithStateChange ==
    {"incomingMessageReceived", "incomingCall", "outgoingMessageReceived",
     "outgoingAPIMessageReceived", "stateInstanceChanged"}

\* handlers.py, line 66: the webhook types the receiver goes on with.
AllowedWebhookTypes ==
    {"incomingMessageReceived", "incomingCall", "outgoingMessageReceived",
     "outgoingAPIMessageReceived"}

\* What a step of a handler did: the exception it raised and the client calls made.
Did(exc, calls) == [exc |-> exc, calls |-> calls]
Nothing == Did(NoExc, <<>>)
Raised(exc) == Did(exc, <<>>)
\* A handler that calls the client operation once more when it returned False.
Called_RetryFailed(c) == Did(c.exc, IF c.ret THEN <<c>> ELSE <<c, c>>)

Called(c) == Did(c.exc, <<c>>)

\* should_process_message that looks at state left by earlier requests: it
\* refuses every chat while a leftover temporary file is on the disk.
WebhookHandler_should_process_message_WhileDiskClean(chat_id) ==
    /\ temp_files = 0
    /\ (IF ~Truthy(settings.max_chat_id) THEN TRUE ELSE chat_id = settings.max_chat_id)

WebhookHandler_should_process_message_Always(chat_id) == TRUE

\* WebhookHandler.should_process_message; self.target_chat_id is settings.max_chat_id.
WebhookHandler_should_process_message(chat_id) ==
    IF ~Truthy(settings.max_chat_id) THEN TRUE
    ELSE chat_id = settings.max_chat_id

WebhookHandler_handle_text_message(md, sender_name, sender_phone, bot) ==
    LET tmd == md.textMessageData IN
    IF tmd.t = "null" THEN Raised("AttributeError")
    ELSE LET text == IF tmd.t = "dict" THEN GetD(tmd.textMessage, "") ELSE "" IN
         IF Truthy(text)
         THEN Called(TelegramClient_send_text_message(text, sender_name, sender_phone, bot))
         ELSE Nothing

WebhookHandler_handle_extended_text_message(md, sender_name, sender_phone, bot) ==
    LET tmd == md.extendedTextMessageData IN
    IF tmd.t = "null" THEN Raised("AttributeError")
    ELSE LET text == IF tmd.t = "dict" THEN GetD(tmd.text, "") ELSE "" IN
         IF Truthy(text)
         THEN Called(TelegramClient_send_text_message(text, sender_name, sender_phone, bot))
         ELSE Nothing

\* The attachment of an image or video message: fileMessageData or downloadUrl,
\* then the URL and the caption by the type of what was found.
WebhookHandler_image_data(md) ==
    IF JTruthy(md.fileMessageData) THEN md.fileMessageData
    ELSE IF md.downloadUrl = Missing THEN JNull ELSE JStr(md.downloadUrl)

WebhookHandler_image_url(md) ==
    LET image_data == WebhookHandler_image_data(md) IN
    CASE image_data.t = "dict" -> Get(image_data.downloadUrl)
      [] image_data.t = "str"  -> image_data.v
      [] OTHER                 -> None

WebhookHandler_image_caption(md) ==
    IF WebhookHandler_image_data(md).t = "dict" THEN Get(md.caption) ELSE None

WebhookHandler_handle_image_message(md, sender_name, sender_phone, dl, bot) ==
    LET image_url == WebhookHandler_image_url(md)
        caption == WebhookHandler_image_caption(md)
    IN  IF Truthy(image_url)
        THEN Called(TelegramClient_send_photo(image_url, caption, sender_name, sender_phone, dl, bot))
        ELSE Nothing

WebhookHandler_handle_video_message(md, sender_name, sender_phone, dl, bot) ==
    LET video_url == WebhookHandler_image_url(md)
        caption == WebhookHandler_image_caption(md)
    IN  IF Truthy(video_url)
        THEN Called(TelegramClient_send_video(video_url, caption, sender_name, sender_phone, dl, bot))
        ELSE Nothing

\* The common body of the document, audio and voice handlers:
\* doc_data = fileMessageData or {}, then doc_data.get(...), which a plain
\* string does not have.
WebhookHandler_handle_file_as_document(md, default_name, fixed_caption, sender_name, sender_phone, dl, bot) ==
    LET fmd == md.fileMessageData IN
    IF JTruthy(fmd) /\ fmd.t = "str" THEN Raised("AttributeError")
    ELSE LET document_url == IF JTruthy(fmd) THEN Get(fmd.downloadUrl) ELSE None
             filename == IF JTruthy(fmd) THEN Or(Get(fmd.fileName), default_name)
                         ELSE default_name
             caption == IF fixed_caption = Missing THEN Get(md.caption) ELSE fixed_caption
         IN  IF Truthy(document_url)
             THEN Called(TelegramClient_send_document(document_url, filename, caption,
                                                      sender_name, sender_phone, dl, bot))
             ELSE Nothing

WebhookHandler_handle_document_message(md, sender_name, sender_phone, dl, bot) ==
    WebhookHandler_handle_file_as_document(md, "document", Missing, sender_name,
                                           sender_phone, dl, bot)

WebhookHandler_handle_audio_message(md, sender_name, sender_phone, dl, bot) ==
    WebhookHandler_handle_file_as_document(md, "audio.mp3", AudioLabel, sender_name,
                                           sender_phone, dl, bot)

WebhookHandler_handle_voice_message(md, sender_name, sender_phone, dl, bot) ==
    WebhookHandler_handle_file_as_document(md, "voice.ogg", VoiceLabel, sender_name,
                                           sender_phone, dl, bot)

\* The dict a receiver returns, and the client calls its handling made.
Result(status, detail, calls) == [status |-> status, detail |-> detail, calls |-> calls]

\* The branch on typeMessage without its else arm: an unmapped type falls
\* through to the success return.
WebhookHandler_dispatch_Fallthrough(md, sender_name, sender_phone, dl, bot) ==
    LET type_message == Get(md.typeMessage)
        did == CASE type_message = "textMessage" ->
                      WebhookHandler_handle_text_message(md, sender_name, sender_phone, bot)
                 [] type_message = "extendedTextMessage" ->
                      WebhookHandler_handle_extended_text_message(md, sender_name, sender_phone, bot)
                 [] type_message = "imageMessage" ->
                      WebhookHandler_handle_image_message(md, sender_name, sender_phone, dl, bot)
                 [] type_message = "videoMessage" ->
                      WebhookHandler_handle_video_message(md, sender_name, sender_phone, dl, bot)
                 [] type_message = "documentMessage" ->
                      WebhookHandler_handle_document_message(md, sender_name, sender_phone, dl, bot)
                 [] type_message = "audioMessage" ->
                      WebhookHandler_handle_audio_message(md, sender_name, sender_phone, dl, bot)
                 [] type_message = "voiceMessage" ->
                      WebhookHandler_handle_voice_message(md, sender_name, sender_phone, dl, bot)
                 [] OTHER -> Nothing
    IN  IF did.exc # NoExc THEN Result("error", did.exc, did.calls)
        ELSE Result("success", "", did.calls)

\* The branch on typeMessage with the value of the send looked at: a send
\* that returned False is answered as an error.
WebhookHandler_dispatch_CheckedSend(md, sender_name, sender_phone, dl, bot) ==
    LET r == WebhookHandler_dispatch_Fallthrough(md, sender_name, sender_phone, dl, bot)
        type_message == Get(md.typeMessage)
    IN  IF type_message \notin {"textMessage", "extendedTextMessage", "imageMessage",
                                "videoMessage", "documentMessage", "audioMessage",
                                "voiceMessage"}
        THEN Result("unsupported", type_message, <<>>)
        ELSE IF r.status = "success" /\ r.calls # <<>> /\ ~r.calls[1].ret
        THEN Result("error", "send failed", r.calls)
        ELSE r

\* The branch on typeMessage (handlers.py, lines 90-111), once the chat filter passed.
WebhookHandler_dispatch(md, sender_name, sender_phone, dl, bot) ==
    LET type_message == Get(md.typeMessage)
        did == CASE type_message = "textMessage" ->
                      WebhookHandler_handle_text_message(md, sender_name, sender_phone, bot)
                 [] type_message = "extendedTextMessage" ->
                      WebhookHandler_handle_extended_text_message(md, sender_name, sender_phone, bot)
                 [] type_message = "imageMessage" ->
                      WebhookHandler_handle_image_message(md, sender_name, sender_phone, dl, bot)
                 [] type_message = "videoMessage" ->
                      WebhookHandler_handle_video_message(md, sender_name, sender_phone, dl, bot)
                 [] type_message = "documentMessage" ->
                      WebhookHandler_handle_document_message(md, sender_name, sender_phone, dl, bot)
                 [] type_message = "audioMessage" ->
                      WebhookHandler_handle_audio_message(md, sender_name, sender_phone, dl, bot)
                 [] type_message = "voiceMessage" ->
                      WebhookHandler_handle_voice_message(md, sender_name, sender_phone, dl, bot)
                 [] OTHER -> Nothing
    IN  IF type_message \notin {"textMessage", "extendedTextMessage", "imageMessage",
                                "videoMessage", "documentMessage", "audioMessage",
                                "voiceMessage"}
        THEN Result("unsupported", type_message, <<>>)
        ELSE IF did.exc # NoExc THEN Result("error", did.exc, did.calls)
        ELSE Result("success", "", did.calls)

\* handle_incoming_message with the chat filter in front of the event-type
\* filter.
WebhookHandler_handle_incoming_message_ChatFilterFirst(payload, dl, bot) ==
    IF payload.t # "dict" THEN Result("error", "AttributeError", <<>>)
    ELSE LET message_data == IF payload.messageData.t = "missing"
                             THEN [t |-> "dict", typeMessage |-> Missing]
                             ELSE payload.messageData
             sender_data == payload.senderData
         IN  IF sender_data.t = "null" THEN Result("error", "AttributeError", <<>>)
             ELSE LET sd == IF sender_data.t = "missing"
                            THEN [t |-> "dict", chatId |-> Missing, sender |-> Missing,
                                  senderName |-> Missing, name |-> Missing]
                            ELSE sender_data
                      chat_id == Or(Get(sd.chatId), Get(sd.sender))
                  IN  IF ~WebhookHandler_should_process_message(chat_id)
                      THEN Result("ignored", "chat_filter", <<>>)
                      ELSE IF Get(payload.typeWebhook) \notin AllowedWebhookTypes
                      THEN Result("ignored", "not_a_message", <<>>)
                      ELSE IF GetD(sd.sender, "") = None
                      THEN Result("error", "AttributeError", <<>>)
                      ELSE IF message_data.t = "null"
                      THEN Result("error", "AttributeError", <<>>)
                      ELSE WebhookHandler_dispatch(message_data,
                                                   Or(Get(sd.senderName), Get(sd.name)),
                                                   StripSuffix(GetD(sd.sender, "")), dl, bot)

\* WebhookHandler.handle_incoming_message: every exception raised inside is
\* caught (except Exception) and becomes the dict {status: error, message}.
WebhookHandler_handle_incoming_message(payload, dl, bot) ==
    IF payload.t # "dict" THEN Result("error", "AttributeError", <<>>)
    ELSE IF Get(payload.typeWebhook) \notin AllowedWebhookTypes
    THEN Result("ignored", "not_a_message", <<>>)
    ELSE LET message_data == IF payload.messageData.t = "missing"
                             THEN [t |-> "dict", typeMessage |-> Missing]
                             ELSE payload.messageData
             sender_data == payload.senderData
         IN  IF sender_data.t = "null" THEN Result("error", "AttributeError", <<>>)
             ELSE LET sd == IF sender_data.t = "missing"
                            THEN [t |-> "dict", chatId |-> Missing, sender |-> Missing,
                                  senderName |-> Missing, name |-> Missing]
                            ELSE sender_data
                      chat_id == Or(Get(sd.chatId), Get(sd.sender))
                  IN  IF ~WebhookHandler_should_process_message(chat_id)
                      THEN Result("ignored", "chat_filter", <<>>)
                      ELSE IF GetD(sd.sender, "") = None
                      THEN Result("error", "AttributeError", <<>>)
                      ELSE IF message_data.t = "null"
                      THEN Result("error", "AttributeError", <<>>)
                      ELSE WebhookHandler_dispatch(message_data,
                                                   Or(Get(sd.senderName), Get(sd.name)),
                                                   StripSuffix(GetD(sd.sender, "")), dl, bot)

---------------------------------------------------------------------------
(* The GREEN-API client: src/app/green_api_client.py *)

\* Outcomes of the HTTP POST to GREEN-API: status 200, another status, or an
\* exception raised by the HTTP session.
GreenOutcomes == {"ok", "non200", "raise"}

GreenApiClient_format_chat_id(chat_id) == StripSuffix(chat_id)

\* _format_message that puts the label in front of every text.
GreenApiClient_format_message_AlwaysLabel(text, sender_name, sender_username) ==
    LET name_part == IF Truthy(sender_name) THEN <<PersonIcon \o " " \o sender_name>> ELSE <<>>
        user_part == IF Truthy(sender_username) THEN <<"@" \o sender_username>> ELSE <<>>
        sender_info == name_part \o user_part
        header == IF Len(sender_info) = 2 THEN sender_info[1] \o " | " \o sender_info[2]
                  ELSE IF Len(sender_info) = 1 THEN sender_info[1]
                  ELSE ""
    IN  FromTelegramLabel \o header \o "\n\n" \o text

\* _format_message that leaves the username out of the header.
GreenApiClient_format_message_NameOnly(text, sender_name, sender_username) ==
    IF Truthy(sender_name)
    THEN FromTelegramLabel \o PersonIcon \o " " \o sender_name \o "\n\n" \o text
    ELSE text

\* GreenApiClient._format_message
GreenApiClient_format_message(text, sender_name, sender_username) ==
    LET name_part == IF Truthy(sender_name) THEN <<PersonIcon \o " " \o sender_name>> ELSE <<>>
        user_part == IF Truthy(sender_username) THEN <<"@" \o sender_username>> ELSE <<>>
        sender_info == name_part \o user_part
        header == IF Len(sender_info) = 2 THEN sender_info[1] \o " | " \o sender_info[2]
                  ELSE IF Len(sender_info) = 1 THEN sender_info[1]
                  ELSE ""
    IN  IF Len(sender_info) > 0
        THEN FromTelegramLabel \o header \o "\n\n" \o text
        ELSE text

\* The except clause of send_text_message and send_file_by_url: except Exception.
GreenApiClient_catches(exc) == TRUE

\* What the POST raises under an outcome.
GreenRaises(green) == IF green = "raise" THEN "ClientError" ELSE NoExc

GreenApiClient_send_text_message(chat_id, text, sender_name, sender_username, green) ==
    LET raised == GreenRaises(green) IN
    Call("GreenApiClient.send_text_message", "max", TRUE,
         GreenApiClient_format_chat_id(chat_id),
         GreenApiClient_format_message(text, sender_name, sender_username),
         None, None, green,
         green = "ok",
         IF raised # NoExc /\ ~GreenApiClient_catches(raised) THEN raised ELSE NoExc,
         0, 0)

GreenApiClient_send_file_by_url(chat_id, file_url, filename, caption, sender_name, sender_username, green) ==
    LET raised == GreenRaises(green) IN
    Call("GreenApiClient.send_file_by_url", "max", TRUE,
         GreenApiClient_format_chat_id(chat_id),
         GreenApiClient_format_message(Or(caption, ClipIcon \o " " \o filename),
                                       sender_name, sender_username),
         file_url, filename, green,
         green = "ok",
         IF raised # NoExc /\ ~GreenApiClient_catches(raised) THEN raised ELSE NoExc,
         0, 0)

GreenApiClient_send_photo(chat_id, photo_url, caption, sender_name, sender_username, green) ==
    GreenApiClient_send_file_by_url(chat_id, photo_url, "photo.jpg", Or(caption, PhotoLabel),
                                    sender_name, sender_username, green)

GreenApiClient_send_video(chat_id, video_url, caption, sender_name, sender_username, green) ==
    GreenApiClient_send_file_by_url(chat_id, video_url, "video.mp4", Or(caption, VideoLabel),
                                    sender_name, sender_username, green)

GreenApiClient_send_document(chat_id, document_url, filename, caption, sender_name, sender_username, green) ==
    GreenApiClient_send_file_by_url(chat_id, document_url, filename,
                                    Or(caption, DocumentIcon \o " " \o filename),
                                    sender_name, sender_username, green)

---------------------------------------------------------------------------
(* The Telegram -> Max receiver: src/app/telegram_handlers.py *)

\* str.startswith("/") on the texts used.
StartsWithSlash(text) == text \in {"/start", "/help"}

\* The handler the dispatcher runs for a message: the first registered one
\* whose filter accepts it, "none" when no filter does.
TelegramWebhookHandler_route(message) ==
    CASE Truthy(message.text) /\ ~StartsWithSlash(message.text) -> "text"
      [] message.photo # None    -> "photo"
      [] message.video # None    -> "video"
      [] message.document # None -> "document"
      [] message.voice # None    -> "voice"
      [] message.audio # None    -> "audio"
      [] OTHER                   -> "none"

\* should_process_message that tests the filter with "is None": an empty
\* filter is compared with the chat.
TelegramWebhookHandler_should_process_message_EmptyIsAFilter(chat_id) ==
    IF settings.telegram_chat_id = None THEN TRUE
    ELSE chat_id = settings.telegram_chat_id

\* TelegramWebhookHandler.should_process_message; self.target_chat_id is
\* settings.telegram_chat_id, and chat ids are compared as strings.
TelegramWebhookHandler_should_process_message(chat_id) ==
    IF ~Truthy(settings.telegram_chat_id) THEN TRUE
    ELSE chat_id = settings.telegram_chat_id

TelegramWebhookHandler_get_sender_name(message) ==
    IF message.from_user.t = "null" THEN None ELSE message.from_user.full_name

TelegramWebhookHandler_get_sender_username(message) ==
    IF message.from_user.t = "null" THEN None ELSE message.from_user.username

\* f"https://api.telegram.org/file/bot{self.bot.token}/{file.file_path}"
TelegramFileUrl(file_path) ==
    "https://api.telegram.org/file/bot" \o settings.telegram_bot_token \o "/" \o file_path

\* The file path bot.get_file resolves a file id to.
FilePathOf(file_id) == "files/" \o file_id

\* The six registered handlers.  Each checks the chat filter first and
\* swallows every exception (except Exception: log).  get_file is the outcome
\* of bot.get_file, green that of the POST to GREEN-API.  The value is the
\* sequence of client calls made.
TelegramWebhookHandler_handle_message(kind, message, get_file, green) ==
    LET sender_name == TelegramWebhookHandler_get_sender_name(message)
        sender_username == TelegramWebhookHandler_get_sender_username(message)
        target == settings.max_target_chat_id
    IN
    IF ~TelegramWebhookHandler_should_process_message(message.chat_id) THEN <<>>
    ELSE IF kind = "text"
    THEN << GreenApiClient_send_text_message(target, Or(message.text, ""), sender_name,
                                             sender_username, green) >>
    ELSE IF get_file # "ok" THEN <<>>
    ELSE CASE kind = "photo" ->
                << GreenApiClient_send_photo(target, TelegramFileUrl(FilePathOf(message.photo)),
                                             message.caption, sender_name, sender_username,
                                             green) >>
           [] kind = "video" ->
                << GreenApiClient_send_video(target, TelegramFileUrl(FilePathOf(message.video)),
                                             message.caption, sender_name, sender_username,
                                             green) >>
           [] kind = "document" ->
                << GreenApiClient_send_document(target,
                                                TelegramFileUrl(FilePathOf(message.document)),
                                                Or(message.file_name, "document"),
                                                message.caption, sender_name, sender_username,
                                                green) >>
           [] kind = "voice" ->
                << GreenApiClient_send_document(target,
                                                TelegramFileUrl(FilePathOf(message.voice)),
                                                "voice.ogg", VoiceLabel, sender_name,
                                                sender_username, green) >>
           [] kind = "audio" ->
                << GreenApiClient_send_document(target,
                                                TelegramFileUrl(FilePathOf(message.audio)),
                                                Or(message.file_name, "audio.mp3"), AudioLabel,
                                                sender_name, sender_username, green) >>
           [] OTHER -> <<>>

\* TelegramWebhookHandler.handle_update: parse the update, feed it to the
\* dispatcher, answer success; an exception becomes {status: error, message}.
TelegramWebhookHandler_handle_update(update, get_file, green) ==
    IF update.t = "invalid" THEN Result("error", "ValidationError", <<>>)
    ELSE IF update.kind # "message" THEN Result("success", "", <<>>)
    ELSE LET kind == TelegramWebhookHandler_route(update.message) IN
         IF kind = "none" THEN Result("success", "", <<>>)
         ELSE Result("success", "",
                     TelegramWebhookHandler_handle_message(kind, update.message, get_file, green))

---------------------------------------------------------------------------
(* The HTTP endpoints: src/app/main.py *)

\* What the body of an endpoint's try block produced: the exception it raised
\* (NoExc: none) or the response it returned, and the client calls made.
Out(exc, code, status, detail, calls) ==
    [exc |-> exc, code |-> code, status |-> status, detail |-> detail, calls |-> calls]

\* The response the HTTP caller gets.  escaped names an exception that left
\* the endpoint function; the framework then answers without a status field.
Response(code, status, detail, escaped) ==
    [code |-> code, status |-> status, detail |-> detail, escaped |-> escaped]

NoResponse == Response(0, None, "", NoExc)

Endpoint_catches_NotHTTPException(exc) == exc # "HTTPException"

\* The except clause of the three POST endpoints: except Exception.
Endpoint_catches(exc) == TRUE

\* try: ... except Exception as e: return JSONResponse({"status": "error", ...}, 500).
\* An exception the clause does not catch reaches the framework, which answers
\* an HTTPException with its status code and anything else with 500.
Endpoint_except(out) ==
    IF out.exc = NoExc THEN Response(out.code, out.status, out.detail, NoExc)
    ELSE IF Endpoint_catches(out.exc) THEN Response(500, "error", out.exc, NoExc)
    ELSE Response(IF out.exc = "HTTPException" THEN out.code ELSE 500, None, "", out.exc)

webhook_secret_rejects_Never(auth_header) == FALSE

\* main.py, lines 168-172: the secret check of POST /webhook.
webhook_secret_rejects(auth_header) ==
    /\ Truthy(settings.webhook_secret)
    /\ (~Truthy(auth_header) \/ auth_header # "Bearer " \o settings.webhook_secret)

\* main.py, lines 210-214: the secret check of POST /telegram/webhook.
telegram_webhook_secret_rejects(secret_header) ==
    /\ Truthy(settings.telegram_webhook_secret)
    /\ (~Truthy(secret_header) \/ secret_header # settings.telegram_webhook_secret)

\* webhook_endpoint with the secret check moved in front of the direction gate.
webhook_endpoint_try_AuthFirst(req, dl, bot) ==
    IF webhook_secret_rejects(req.auth) THEN Out("HTTPException", 401, None, "Unauthorized", <<>>)
    ELSE IF ~settings.enable_max_to_telegram
    THEN Out(NoExc, 200, "disabled", "Max -> Telegram direction is disabled", <<>>)
    ELSE IF ~req.body_ok THEN Out("JSONDecodeError", 0, None, "", <<>>)
    ELSE LET result == WebhookHandler_handle_incoming_message(req.payload, dl, bot)
         IN  Out(NoExc, 200, result.status, result.detail, result.calls)

\* The try block of webhook_endpoint.
webhook_endpoint_try(req, dl, bot) ==
    IF ~settings.enable_max_to_telegram
    THEN Out(NoExc, 200, "disabled", "Max -> Telegram direction is disabled", <<>>)
    ELSE IF ~req.body_ok THEN Out("JSONDecodeError", 0, None, "", <<>>)
    ELSE IF webhook_secret_rejects(req.auth) THEN Out("HTTPException", 401, None, "Unauthorized", <<>>)
    ELSE LET result == WebhookHandler_handle_incoming_message(req.payload, dl, bot)
         IN  Out(NoExc, 200, result.status, result.detail, result.calls)

\* The try block of telegram_webhook_endpoint.
telegram_webhook_endpoint_try(req, get_file, green) ==
    IF ~settings.enable_telegram_to_max
    THEN Out(NoExc, 200, "disabled", "Telegram -> Max direction is disabled", <<>>)
    ELSE IF telegram_webhook_secret_rejects(req.secret_header)
    THEN Out("HTTPException", 401, None, "Unauthorized", <<>>)
    ELSE IF ~req.body_ok THEN Out("JSONDecodeError", 0, None, "", <<>>)
    ELSE IF telegram_webhook_handler = None
    THEN Out(NoExc, 500, "error", "Handler not initialized", <<>>)
    ELSE LET result == TelegramWebhookHandler_handle_update(req.update, get_file, green)
         IN  Out(NoExc, 200, result.status, result.detail, result.calls)

\* The try block of test_endpoint: the value of send_text_message is dropped.
test_endpoint_try(req, bot) ==
    IF ~req.body_ok THEN Out("JSONDecodeError", 0, None, "", <<>>)
    ELSE LET c == TelegramClient_send_text_message(
                      GetD(req.text, "Test message from Max bridge"),
                      GetD(req.sender_name, "Test User"), None, bot)
         IN  IF c.exc # NoExc THEN Out(c.exc, 0, None, "", <<c>>)
             ELSE Out(NoExc, 200, "success", "Test message sent to Telegram", <<c>>)

\* The temporary files a sequence of client calls left behind.
RECURSIVE Leaked(_)
Leaked(calls) == IF calls = <<>> THEN 0 ELSE Head(calls).leaked + Leaked(Tail(calls))

---------------------------------------------------------------------------
(* Lifecycle: src/app/main.py, lifespan *)

NoRequest == [req |-> [endpoint |-> "none"], calls |-> <<>>, resp |-> NoResponse]

Init ==
    /\ settings \in SettingsSpace
    /\ phase = "init"
    /\ telegram_webhook_handler = None
    /\ webhook_registered = FALSE
    /\ temp_files = 0
    /\ last = NoRequest

\* lifespan with init_telegram_handler moved behind the webhook registration:
\* the handler is made only when no registration was due or it succeeded.
Startup_HandlerAfterRegistration ==
    /\ phase = "init"
    /\ \E set_webhook_ok \in BOOLEAN :
         LET v == validate_settings(settings) IN
         IF v = "raise" THEN
            /\ phase' = "aborted_raise"
            /\ UNCHANGED <<telegram_webhook_handler, webhook_registered>>
         ELSE IF v = "false" THEN
            /\ phase' = "aborted_exit"
            /\ UNCHANGED <<telegram_webhook_handler, webhook_registered>>
         ELSE
            /\ phase' = "serving"
            /\ telegram_webhook_handler' =
                  IF /\ settings.enable_telegram_to_max
                     /\ (~Truthy(settings.telegram_webhook_url) \/ set_webhook_ok)
                  THEN "handler" ELSE telegram_webhook_handler
            /\ webhook_registered' =
                  (settings.enable_telegram_to_max /\ Truthy(settings.telegram_webhook_url)
                   /\ set_webhook_ok)
    /\ UNCHANGED <<settings, temp_files, last>>

\* lifespan, up to the yield.  set_webhook_ok is the outcome of bot.set_webhook.
Startup ==
    /\ phase = "init"
    /\ \E set_webhook_ok \in BOOLEAN :
         LET v == validate_settings(settings) IN
         IF v = "raise" THEN
            /\ phase' = "aborted_raise"
            /\ UNCHANGED <<telegram_webhook_handler, webhook_registered>>
         ELSE IF v = "false" THEN
            /\ phase' = "aborted_exit"
            /\ UNCHANGED <<telegram_webhook_handler, webhook_registered>>
         ELSE
            /\ phase' = "serving"
            /\ telegram_webhook_handler' =
                  IF settings.enable_telegram_to_max THEN "handler" ELSE telegram_webhook_handler
            /\ webhook_registered' =
                  (settings.enable_telegram_to_max /\ Truthy(settings.telegram_webhook_url)
                   /\ set_webhook_ok)
    /\ UNCHANGED <<settings, temp_files, last>>

\* lifespan, after the yield.
Shutdown ==
    /\ phase = "serving"
    /\ last = NoRequest
    /\ phase' = "stopped"
    /\ webhook_registered' = FALSE
    /\ UNCHANGED <<settings, telegram_webhook_handler, temp_files, last>>

---------------------------------------------------------------------------
(* The requests the model sends *)

SenderDict(chatId, sender, senderName, name) ==
    [t |-> "dict", chatId |-> chatId, sender |-> sender, senderName |-> senderName,
     name |-> name]

SenderDatas ==
    {JMissing, JNull, SenderDict(ChatA, Missing, Missing, "Bob")}
    \cup { SenderDict(c, s, n, Missing) :
             c \in {Missing, ChatA, ChatB}, s \in {Missing, None, ChatA},
             n \in {Missing, "Alice"} }

SenderAliceA == SenderDict(ChatA, ChatA, "Alice", Missing)
SenderAnonB == SenderDict(ChatB, Missing, Missing, Missing)
SenderAlice99 == SenderDict(ChatAlice99, ChatAlice99, "Alice", Missing)

MessageDict(typeMessage, textMessageData, extendedTextMessageData, fileMessageData, downloadUrl, caption) ==
    [t |-> "dict", typeMessage |-> typeMessage, textMessageData |-> textMessageData,
     extendedTextMessageData |-> extendedTextMessageData,
     fileMessageData |-> fileMessageData, downloadUrl |-> downloadUrl, caption |-> caption]

TextMessage(text) ==
    MessageDict("textMessage", [t |-> "dict", textMessage |-> text], JMissing, JMissing,
                Missing, Missing)

FileUrl == "http://x/doc.pdf"

FileDict(downloadUrl, fileName) ==
    [t |-> "dict", downloadUrl |-> downloadUrl, fileName |-> fileName]

\* The shapes of an attachment: <<fileMessageData, downloadUrl, caption>>.
FileShapes ==
    { <<JMissing, Missing, Missing>>,
      <<JMissing, FileUrl, Missing>>,
      <<JStr(FileUrl), Missing, Missing>>,
      <<JStr(FileUrl), Missing, "Look">>,
      <<JNull, Missing, Missing>>,
      <<FileDict(FileUrl, "report.pdf"), Missing, Missing>>,
      <<FileDict(FileUrl, "report.pdf"), Missing, "Look">>,
      <<FileDict(FileUrl, Missing), Missing, Missing>>,
      <<FileDict(Missing, "report.pdf"), Missing, Missing>> }

FileMessageTypes ==
    {"imageMessage", "videoMessage", "documentMessage", "audioMessage", "voiceMessage"}

MessageDatas ==
    {JMissing, JNull,
     MessageDict(Missing, JMissing, JMissing, JMissing, Missing, Missing),
     MessageDict("stickerMessage", JMissing, JMissing, JMissing, Missing, Missing),
     MessageDict(None, JMissing, JMissing, JMissing, Missing, Missing),
     MessageDict("textMessage", JMissing, JMissing, JMissing, Missing, Missing),
     MessageDict("textMessage", JNull, JMissing, JMissing, Missing, Missing),
     MessageDict("extendedTextMessage", JMissing, JMissing, JMissing, Missing, Missing),
     MessageDict("extendedTextMessage", JMissing, [t |-> "dict", text |-> "Hello"], JMissing,
                 Missing, Missing)}
    \cup { TextMessage(x) : x \in {"Hello", "", Missing} }
    \cup { MessageDict(ty, JMissing, JMissing, sh[1], sh[2], sh[3]) :
             ty \in FileMessageTypes, sh \in FileShapes }

WebhookTypes ==
    {Missing, None, "incomingMessageReceived", "outgoingMessageReceived",
     "stateInstanceChanged"}

Payload(typeWebhook, senderData, messageData) ==
    [t |-> "dict", typeWebhook |-> typeWebhook, senderData |-> senderData,
     messageData |-> messageData]

MaxPayloads ==
    {[t |-> "list"]}
    \cup { Payload(tw, sd, TextMessage("Hello")) : tw \in WebhookTypes, sd \in SenderDatas }
    \cup { Payload("incomingMessageReceived", sd, md) :
             sd \in {SenderAliceA, SenderAnonB}, md \in MessageDatas }
    \cup { Payload("incomingMessageReceived", SenderAlice99, md) :
             md \in {TextMessage("Hello"), TextMessage("")} }
    \cup { Payload(tw, SenderAliceA, md) :
             tw \in {Missing, "stateInstanceChanged"}, md \in MessageDatas }

AuthorizationHeaders == {None, "Bearer " \o Secret, "Bearer " \o WrongSecret, Secret}

WebhookRequests ==
    { [endpoint |-> "/webhook", body_ok |-> TRUE, auth |-> a, payload |-> p] :
        a \in AuthorizationHeaders, p \in MaxPayloads }
    \cup { [endpoint |-> "/webhook", body_ok |-> FALSE, auth |-> a, payload |-> [t |-> "list"]] :
        a \in AuthorizationHeaders }

\* What the world does during a Max -> Telegram relay: <<download, bot call>>.
\* The bot is called only after a download that succeeded.
MaxWorlds ==
    { <<"ok", b>> : b \in BotOutcomes }
    \cup { <<d, "ok">> : d \in DownloadOutcomes \ {"ok"} }

TelegramUser(full_name, username) ==
    [t |-> "user", full_name |-> full_name, username |-> username]

TelegramMessage(chat_id, from_user, text, photo, video, document, voice, audio, caption, file_name) ==
    [chat_id |-> chat_id, from_user |-> from_user, text |-> text, photo |-> photo,
     video |-> video, document |-> document, voice |-> voice, audio |-> audio,
     caption |-> caption, file_name |-> file_name]

\* The contents of a Telegram message:
\* <<text, photo, video, document, voice, audio, caption, file_name>>.
TelegramContents ==
    { <<"Hello", None, None, None, None, None, None, None>>,
      <<"/start", None, None, None, None, None, None, None>>,
      <<None, "ph1", None, None, None, None, None, None>>,
      <<None, "ph1", None, None, None, None, "Look", None>>,
      <<None, None, "vi1", None, None, None, None, None>>,
      <<None, None, None, "do1", None, None, None, "report.pdf">>,
      <<None, None, None, "do1", None, None, "Look", None>>,
      <<None, None, None, "do1", None, None, None, None>>,
      <<None, None, None, None, "vo1", None, None, None>>,
      <<None, None, None, None, None, "au1", None, None>>,
      <<None, None, None, None, None, None, None, None>> }

TelegramUsers ==
    {JNull, TelegramUser("Alice", "alice99"), TelegramUser("Alice", None)}

TelegramUpdates ==
    {[t |-> "invalid"]}
    \cup { [t |-> "update", kind |-> k,
            message |-> TelegramMessage(c, u, x[1], x[2], x[3], x[4], x[5], x[6], x[7], x[8])] :
             k \in {"message"}, c \in {TgChatA, TgChatB}, u \in TelegramUsers,
             x \in TelegramContents }
    \cup { [t |-> "update", kind |-> "edited_message",
            message |-> TelegramMessage(TgChatA, JNull, "Hello", None, None, None, None, None,
                                        None, None)] }

SecretHeaders == {None, TgSecret, WrongSecret}

TelegramWebhookRequests ==
    { [endpoint |-> "/telegram/webhook", body_ok |-> TRUE, secret_header |-> h, update |-> u] :
        h \in SecretHeaders, u \in TelegramUpdates }
    \cup { [endpoint |-> "/telegram/webhook", body_ok |-> FALSE, secret_header |-> h,
            update |-> [t |-> "invalid"]] : h \in SecretHeaders }

\* What the world does during a Telegram -> Max relay: <<get_file, POST>>.
TelegramWorlds ==
    { <<"ok", g>> : g \in GreenOutcomes } \cup { <<"fail", "ok">> }

TestRequests ==
    { [endpoint |-> "/test", body_ok |-> b, text |-> x, sender_name |-> n] :
        b \in BOOLEAN, x \in {Missing, "Hello"}, n \in {Missing, "Alice"} }

---------------------------------------------------------------------------
(* Requests *)

\* A request is answered: its handling, from the first line of the endpoint
\* function to the response, with what it did to the disk.
Answer(req, out) ==
    /\ temp_files + Leaked(out.calls) <= MaxTempFiles
    /\ temp_files' = temp_files + Leaked(out.calls)
    /\ last' = [req |-> req, calls |-> out.calls, resp |-> Endpoint_except(out)]
    /\ UNCHANGED <<settings, phase, telegram_webhook_handler, webhook_registered>>

\* POST /webhook
WebhookEndpoint ==
    /\ phase = "serving"
    /\ last = NoRequest
    /\ \E req \in WebhookRequests, w \in MaxWorlds :
         Answer(req, webhook_endpoint_try(req, w[1], w[2]))

\* POST /telegram/webhook
TelegramWebhookEndpoint ==
    /\ phase = "serving"
    /\ last = NoRequest
    /\ \E req \in TelegramWebhookRequests, w \in TelegramWorlds :
         Answer(req, telegram_webhook_endpoint_try(req, w[1], w[2]))

\* POST /test
TestEndpoint ==
    /\ phase = "serving"
    /\ last = NoRequest
    /\ \E req \in TestRequests, bot \in BotOutcomes :
         Answer(req, test_endpoint_try(req, bot))

\* GET /
Root ==
    /\ phase = "serving"
    /\ last = NoRequest
    /\ last' = [req |-> [endpoint |-> "/"], calls |-> <<>>,
                resp |-> Response(200, "running", "max-to-telegram-bridge", NoExc)]
    /\ UNCHANGED <<settings, phase, telegram_webhook_handler, webhook_registered, temp_files>>

\* GET /health
HealthCheck ==
    /\ phase = "serving"
    /\ last = NoRequest
    /\ last' = [req |-> [endpoint |-> "/health"], calls |-> <<>>,
                resp |-> Response(200, "healthy", "", NoExc)]
    /\ UNCHANGED <<settings, phase, telegram_webhook_handler, webhook_registered, temp_files>>

\* The response has gone to the caller; the next request is taken.
Complete ==
    /\ last # NoRequest
    /\ last' = NoRequest
    /\ UNCHANGED <<settings, phase, telegram_webhook_handler, webhook_registered, temp_files>>

Next ==
    \/ Startup
    \/ Shutdown
    \/ WebhookEndpoint
    \/ TelegramWebhookEndpoint
    \/ TestEndpoint
    \/ Root
    \/ HealthCheck
    \/ Complete

Spec == Init /\ [][Next]_vars

---------------------------------------------------------------------------
(* The same event delivered twice *)

\* The events that are delivered twice: disallowed and allowed webhook
\* types, a sender inside and one outside the chat filter, a text, a sticker
\* and an image; on Telegram a text, a command, a sticker and a photo.
ReplayWebhookRequests ==
    { [endpoint |-> "/webhook", body_ok |-> TRUE, auth |-> a, payload |-> Payload(tw, sd, md)] :
        a \in AuthorizationHeaders,
        tw \in {Missing, "stateInstanceChanged", "incomingMessageReceived"},
        sd \in {SenderAliceA, SenderAnonB},
        md \in {TextMessage("Hello"),
                 MessageDict("stickerMessage", JMissing, JMissing, JMissing, Missing, Missing),
                 MessageDict("imageMessage", JMissing, JMissing, JMissing, FileUrl, Missing)} }
ReplayTelegramRequests ==
    { [endpoint |-> "/telegram/webhook", body_ok |-> TRUE, secret_header |-> h,
       update |-> [t |-> "update", kind |-> "message",
                   message |-> TelegramMessage(c, JNull, x[1], x[2], None, None, None, None,
                                               None, None)]] :
        h \in SecretHeaders, c \in {TgChatA, TgChatB},
        x \in {<<"Hello", None>>, <<"/start", None>>, <<None, None>>, <<None, "ph1">>} }

\* POST /webhook and POST /telegram/webhook, first delivery of an event.
DeliverMax ==
    /\ phase = "serving"
    /\ last = NoRequest
    /\ \E req \in ReplayWebhookRequests, w \in MaxWorlds :
         Answer(req, webhook_endpoint_try(req, w[1], w[2]))
DeliverTelegram ==
    /\ phase = "serving"
    /\ last = NoRequest
    /\ \E req \in ReplayTelegramRequests, w \in TelegramWorlds :
         Answer(req, telegram_webhook_endpoint_try(req, w[1], w[2]))

\* The requests in flight next to the one whose answer is held: an image
\* from Max, a photo from Telegram.
OtherWebhookRequests ==
    { [endpoint |-> "/webhook", body_ok |-> TRUE, auth |-> "Bearer " \o Secret,
       payload |-> Payload("incomingMessageReceived", SenderAliceA,
                           MessageDict("imageMessage", JMissing, JMissing, JMissing, FileUrl,
                                       Missing))] }
OtherTelegramRequests ==
    { [endpoint |-> "/telegram/webhook", body_ok |-> TRUE, secret_header |-> TgSecret,
       update |-> [t |-> "update", kind |-> "message",
                   message |-> TelegramMessage(TgChatA, JNull, None, "ph1", None, None, None,
                                               None, None, None)]] }

\* While the answer to a request is still held, another request is handled
\* from its first line to its response; of what it did only the temporary
\* files it left are visible to the requests around it.
OtherRequest ==
    /\ phase = "serving"
    /\ last # NoRequest
    /\ \E calls \in { webhook_endpoint_try(r, w[1], w[2]).calls :
                        r \in OtherWebhookRequests, w \in MaxWorlds }
                    \cup { telegram_webhook_endpoint_try(r, w[1], w[2]).calls :
                             r \in OtherTelegramRequests, w \in TelegramWorlds } :
         /\ temp_files + Leaked(calls) <= MaxTempFiles
         /\ temp_files' = temp_files + Leaked(calls)
    /\ UNCHANGED <<settings, phase, telegram_webhook_handler, webhook_registered, last>>

\* The provider delivers the event of the last request once more: the
\* endpoint handles it again, in a world that may behave differently.
Reprocess ==
    /\ phase = "serving"
    /\ last.req.endpoint \in {"/webhook", "/telegram/webhook"}
    /\ "run" \notin DOMAIN last
    /\ \E out \in IF last.req.endpoint = "/webhook"
                  THEN { webhook_endpoint_try(last.req, w[1], w[2]) : w \in MaxWorlds }
                  ELSE { telegram_webhook_endpoint_try(last.req, w[1], w[2]) :
                           w \in TelegramWorlds } :
         /\ temp_files + Leaked(out.calls) <= MaxTempFiles
         /\ temp_files' = temp_files + Leaked(out.calls)
         /\ last' = [req |-> last.req, calls |-> out.calls, resp |-> Endpoint_except(out),
                     run |-> 2]
    /\ UNCHANGED <<settings, phase, telegram_webhook_handler, webhook_registered>>

ReplayNext ==
    \/ Startup
    \/ DeliverMax
    \/ DeliverTelegram
    \/ OtherRequest
    \/ Reprocess
    \/ Complete

ReplaySpec == Init /\ [][ReplayNext]_vars

---------------------------------------------------------------------------
(* The chat filters, unset, empty and set *)

\* The valid configurations of either direction without secrets, with each
\* chat filter unset, empty or set.
FilterSettings ==
    { s \in [ max_instance_id         : {SomeInstance},
              max_api_token           : {SomeToken},
              telegram_bot_token      : {SomeBotToken},
              telegram_channel_id     : {SomeChannel},
              max_chat_id             : {None, "", ChatA},
              telegram_webhook_url    : {None},
              telegram_webhook_secret : {None},
              telegram_chat_id        : {None, "", TgChatA},
              max_target_chat_id      : {SomeMaxTarget},
              enable_max_to_telegram  : BOOLEAN,
              enable_telegram_to_max  : BOOLEAN,
              webhook_secret          : {None} ] :
        s.enable_max_to_telegram # s.enable_telegram_to_max }

FilterInit ==
    /\ settings \in FilterSettings
    /\ phase = "init"
    /\ telegram_webhook_handler = None
    /\ webhook_registered = FALSE
    /\ temp_files = 0
    /\ last = NoRequest

FilterNext ==
    \/ Startup
    \/ WebhookEndpoint
    \/ TelegramWebhookEndpoint
    \/ Complete

FilterSpec == FilterInit /\ [][FilterNext]_vars

---------------------------------------------------------------------------
(* The two formatters applied on their own *)

\* Settings() in an empty environment: the defaults of config.py.
DefaultSettings ==
    [ max_instance_id         |-> "",
      max_api_token           |-> "",
      telegram_bot_token      |-> "",
      telegram_channel_id     |-> "",
      max_chat_id             |-> None,
      telegram_webhook_url    |-> None,
      telegram_webhook_secret |-> None,
      telegram_chat_id        |-> None,
      max_target_chat_id      |-> "",
      enable_max_to_telegram  |-> TRUE,
      enable_telegram_to_max  |-> TRUE,
      webhook_secret          |-> None ]

\* The arguments of _format_message: text, sender_name, and the sender's
\* handle (sender_phone for Telegram, sender_username for Max).
FormatTexts == {"Hello", "", "Line 1\n\nLine 2", PhotoLabel}
FormatNames == {None, "", "Alice", "Bob"}
FormatHandles == {None, "", "alice99", "79001234567"}

\* A call of _format_message that has not returned yet.
FormatCall(text, sender_name, sender_handle) ==
    [req |-> [endpoint |-> "_format_message", text |-> text, sender_name |-> sender_name,
              sender_handle |-> sender_handle],
     calls |-> <<>>, resp |-> NoResponse]

FormatInit ==
    /\ settings = DefaultSettings
    /\ phase = "init"
    /\ telegram_webhook_handler = None
    /\ webhook_registered = FALSE
    /\ temp_files = 0
    /\ \E t \in FormatTexts, n \in FormatNames, h \in FormatHandles : last = FormatCall(t, n, h)

\* The call returns: resp.detail is the string _format_message returned.
FormatReturns(formatter, value) ==
    /\ last.req.endpoint = "_format_message"
    /\ last' = [last EXCEPT !.req.endpoint = formatter,
                            !.resp = Response(0, "returned", value, NoExc)]
    /\ UNCHANGED <<settings, phase, telegram_webhook_handler, webhook_registered, temp_files>>

\* TelegramClient._format_message(text, sender_name, sender_phone)
FormatForTelegram ==
    FormatReturns("TelegramClient._format_message",
                  TelegramClient_format_message(last.req.text, last.req.sender_name,
                                                last.req.sender_handle))

\* GreenApiClient._format_message(text, sender_name, sender_username)
FormatForMax ==
    FormatReturns("GreenApiClient._format_message",
                  GreenApiClient_format_message(last.req.text, last.req.sender_name,
                                                last.req.sender_handle))

FormatNext == FormatForTelegram \/ FormatForMax

FormatSpec == FormatInit /\ [][FormatNext]_vars

---------------------------------------------------------------------------
(* Properties *)

\* The outbound send calls among the client calls of the last request.
SendsTo(dest) == { i \in DOMAIN last.calls : last.calls[i].sent /\ last.calls[i].dest = dest }
NoSend == SendsTo("telegram") = {} /\ SendsTo("max") = {}

OnWebhook == last.req.endpoint = "/webhook"
OnTelegramWebhook == last.req.endpoint = "/telegram/webhook"

\* The last request failed the secret check of its endpoint, read off the
\* configuration and the header alone.
FailsMaxSecret ==
    /\ OnWebhook
    /\ settings.webhook_secret \notin {None, ""}
    /\ last.req.auth # "Bearer " \o settings.webhook_secret
FailsTelegramSecret ==
    /\ OnTelegramWebhook
    /\ settings.telegram_webhook_secret \notin {None, ""}
    /\ last.req.secret_header # settings.telegram_webhook_secret

\* The source chat identifier of a Max event: senderData.chatId, else
\* senderData.sender, else none.
MaxSourceChat(payload) ==
    IF payload.t # "dict" \/ payload.senderData.t # "dict" THEN None
    ELSE IF payload.senderData.chatId \notin {Missing, None, ""} THEN payload.senderData.chatId
    ELSE IF payload.senderData.sender \notin {Missing, None, ""} THEN payload.senderData.sender
    ELSE None

\* The last request is a Max event whose chat the configured filter excludes.
FilteredMaxEvent ==
    /\ OnWebhook /\ last.req.body_ok
    /\ settings.max_chat_id \notin {None, ""}
    /\ MaxSourceChat(last.req.payload) # settings.max_chat_id
\* The last request is a Telegram message whose chat the configured filter excludes.
FilteredTelegramEvent ==
    /\ OnTelegramWebhook /\ last.req.body_ok
    /\ last.req.update.t = "update"
    /\ settings.telegram_chat_id \notin {None, ""}
    /\ last.req.update.message.chat_id # settings.telegram_chat_id

\* C1: in send_photo, send_video and send_document every temporary file made
\* by _download_file for a call is gone when the call ends, on every exit path.
C1_TempFilesDeleted ==
    \A i \in DOMAIN last.calls :
        last.calls[i].op \in {"TelegramClient.send_photo", "TelegramClient.send_video",
                              "TelegramClient.send_document"}
            => last.calls[i].leaked = 0

\* C2: with a secret configured and the direction enabled, a request (with a
\* JSON body) that fails the secret check of its webhook endpoint is answered
\* with HTTP 401.
C2_AuthFailureIs401 ==
    /\ (FailsMaxSecret /\ settings.enable_max_to_telegram /\ last.req.body_ok)
          => last.resp.code = 401
    /\ (FailsTelegramSecret /\ settings.enable_telegram_to_max /\ last.req.body_ok)
          => last.resp.code = 401

\* C3: with a secret configured, a webhook request that fails the secret
\* check makes no outbound send call, on either endpoint, whatever its payload.
C3_NoSendOnAuthFailure ==
    (FailsMaxSecret \/ FailsTelegramSecret) => NoSend

\* A Max event that would be relayed arrives with a wrong bearer token.
C3_Witness ==
    /\ FailsMaxSecret
    /\ settings.enable_max_to_telegram
    /\ last.req.body_ok
    /\ last.req.auth = "Bearer " \o WrongSecret
    /\ last.req.payload = Payload("incomingMessageReceived", SenderAliceA, TextMessage("Hello"))
    /\ settings.max_chat_id = None
    /\ NoSend

\* C4: in both directions, an event whose source chat does not match the
\* configured chat filter (an event without a chat identifier included) makes
\* no outbound send call, for every message kind.
C4_NoSendWhenFiltered ==
    (FilteredMaxEvent \/ FilteredTelegramEvent) => NoSend

\* An authorized, enabled Max image event from chat B while the filter is chat A.
C4_Witness ==
    /\ FilteredMaxEvent
    /\ settings.enable_max_to_telegram
    /\ ~FailsMaxSecret
    /\ last.req.payload.t = "dict"
    /\ last.req.payload.typeWebhook = "incomingMessageReceived"
    /\ last.req.payload.senderData = SenderAnonB
    /\ last.req.payload.messageData.t = "dict"
    /\ last.req.payload.messageData.typeMessage = "imageMessage"
    /\ last.req.payload.messageData.downloadUrl = FileUrl
    /\ NoSend

\* A Telegram message of a mapped kind: a text that is no command, or a photo,
\* video, document, voice or audio.
MappedTelegramMessage(m) ==
    \/ m.text \notin {None, "", "/start", "/help"}
    \/ m.photo # None \/ m.video # None \/ m.document # None
    \/ m.voice # None \/ m.audio # None

\* C5: in both directions, an event whose source chat does not match the
\* configured chat filter is answered with status "ignored" (stated for
\* requests that reach the chat filter: direction enabled, secret check passed,
\* a Max event whose senderData is an object, a Telegram message of a mapped
\* kind).
C5_FilteredIsIgnored ==
    /\ (/\ FilteredMaxEvent /\ settings.enable_max_to_telegram /\ ~FailsMaxSecret
        /\ last.req.payload.t = "dict" /\ last.req.payload.senderData.t = "dict")
          => last.resp.status = "ignored"
    /\ (/\ FilteredTelegramEvent /\ settings.enable_telegram_to_max /\ ~FailsTelegramSecret
        /\ last.req.update.kind = "message" /\ MappedTelegramMessage(last.req.update.message))
          => last.resp.status = "ignored"

\* The configuration is valid: exactly one direction, and its credentials.
ValidConfiguration ==
    /\ settings.enable_max_to_telegram # settings.enable_telegram_to_max
    /\ settings.max_instance_id # ""
    /\ settings.max_api_token # ""
    /\ settings.telegram_bot_token # ""
    /\ settings.enable_max_to_telegram => settings.telegram_channel_id # ""
    /\ settings.enable_telegram_to_max => settings.max_target_chat_id # ""

\* C6: the application serves only with a valid configuration: startup
\* raises when both or neither direction is enabled, exits when a required
\* credential is empty, and passes exactly when the configuration is valid.
C6_ServesOnlyIfValid ==
    /\ phase \in {"serving", "stopped"} => ValidConfiguration
    /\ phase = "aborted_raise" =>
          settings.enable_max_to_telegram = settings.enable_telegram_to_max
    /\ phase = "aborted_exit" =>
          /\ settings.enable_max_to_telegram # settings.enable_telegram_to_max
          /\ ~ValidConfiguration
    /\ last # NoRequest => ValidConfiguration

\* The application serves requests in the Telegram -> Max direction.
C6_Witness ==
    /\ phase = "serving"
    /\ settings.enable_telegram_to_max
    /\ last.resp.status = "success"

\* C7: after startup messages flow in the configured direction only: no
\* request to any endpoint sends to Telegram while Telegram -> Max is the
\* active direction, and none sends to Max while Max -> Telegram is.
C7_OneDirectionOnly ==
    /\ (settings.enable_telegram_to_max /\ ~settings.enable_max_to_telegram)
          => SendsTo("telegram") = {}
    /\ (settings.enable_max_to_telegram /\ ~settings.enable_telegram_to_max)
          => SendsTo("max") = {}

\* Handling the last webhook request raised an exception inside the receiver:
\* the receiver answered with an error dict, or a client call let one through.
ReceiverRaised ==
    /\ OnWebhook \/ OnTelegramWebhook
    /\ \/ last.resp.status = "error"
       \/ \E i \in DOMAIN last.calls : last.calls[i].exc # NoExc

\* C8: an exception raised while a receiver handles an event becomes a
\* generic error JSON returned with HTTP status 500, on both endpoints.
C8_HandlerErrorIs500 ==
    ReceiverRaised => (last.resp.code = 500 /\ last.resp.status = "error")

\* C9: every request to POST /webhook or POST /telegram/webhook ends with a
\* JSON response carrying a status field; no exception leaves the endpoint
\* function.
C9_AlwaysWellFormedResponse ==
    (OnWebhook \/ OnTelegramWebhook) =>
        /\ last.resp.escaped = NoExc
        /\ last.resp.status \in {"disabled", "ignored", "unsupported", "success", "error"}
        /\ last.resp.code \in {200, 500}

\* The secret check raised HTTPException and the endpoint turned it into an
\* error response.
C9_Witness ==
    /\ OnTelegramWebhook
    /\ FailsTelegramSecret
    /\ settings.enable_telegram_to_max
    /\ last.resp.detail = "HTTPException"
    /\ last.resp.status = "error"

\* C10: every send operation of both clients returns false and raises
\* nothing whenever the underlying transport or provider call raises.
C10_SendFailureReturnsFalse ==
    \A i \in DOMAIN last.calls :
        last.calls[i].transport \in {"api_error", "other_error", "raise"}
            => (last.calls[i].ret = FALSE /\ last.calls[i].exc = NoExc)

\* C11: when a direction is disabled, every request to that direction's
\* webhook endpoint is answered with HTTP 200 and status "disabled" and makes
\* no outbound send, whatever its payload, its body and its secret header.
C11_DisabledIsNeutral ==
    /\ (OnWebhook /\ ~settings.enable_max_to_telegram)
          => (last.resp.code = 200 /\ last.resp.status = "disabled" /\ NoSend)
    /\ (OnTelegramWebhook /\ ~settings.enable_telegram_to_max)
          => (last.resp.code = 200 /\ last.resp.status = "disabled" /\ NoSend)

\* A relayable Max event with a wrong bearer token arrives while a secret is
\* configured and Max -> Telegram is disabled.
C11_Witness ==
    /\ OnWebhook
    /\ ~settings.enable_max_to_telegram
    /\ FailsMaxSecret
    /\ last.req.auth = "Bearer " \o WrongSecret
    /\ last.req.body_ok
    /\ last.req.payload = Payload("incomingMessageReceived", SenderAliceA, TextMessage("Hello"))
    /\ last.resp.status = "disabled"

\* The last request is a Max event (a JSON object) that reached the receiver:
\* the direction is enabled, the body parsed, the secret check passed.
ReachedMaxReceiver ==
    /\ OnWebhook
    /\ settings.enable_max_to_telegram
    /\ last.req.body_ok
    /\ ~FailsMaxSecret
    /\ last.req.payload.t = "dict"

\* C12: on the Max -> Telegram receiver, an event whose typeWebhook is none of
\* incomingMessageReceived, incomingCall, outgoingMessageReceived,
\* outgoingAPIMessageReceived (a missing or null typeWebhook included) is
\* answered with HTTP 200 and status "ignored" and makes no outbound send,
\* whatever its senderData and messageData are.
C12_OtherEventIsIgnored ==
    (/\ ReachedMaxReceiver
     /\ last.req.payload.typeWebhook \notin
           {"incomingMessageReceived", "incomingCall", "outgoingMessageReceived",
            "outgoingAPIMessageReceived"})
        => (last.resp.code = 200 /\ last.resp.status = "ignored" /\ NoSend)

\* A state notification that carries a relayable text message is ignored.
C12_Witness ==
    /\ ReachedMaxReceiver
    /\ last.req.payload = Payload("stateInstanceChanged", SenderAliceA, TextMessage("Hello"))
    /\ settings.max_chat_id = None
    /\ last.resp.status = "ignored"
    /\ last.resp.detail = "not_a_message"

\* The last request is an allowed, well-formed Max event that passed the chat
\* filter: senderData is an object (or absent) whose sender is a string (or
\* absent), messageData is an object (or absent).
DispatchedMaxEvent ==
    /\ ReachedMaxReceiver
    /\ last.req.payload.typeWebhook \in
          {"incomingMessageReceived", "incomingCall", "outgoingMessageReceived",
           "outgoingAPIMessageReceived"}
    /\ last.req.payload.senderData.t \in {"dict", "missing"}
    /\ last.req.payload.senderData.t = "dict" => last.req.payload.senderData.sender # None
    /\ last.req.payload.messageData.t \in {"dict", "missing"}
    /\ ~FilteredMaxEvent

\* The typeMessage of the last Max event; None when it is absent or null, or
\* when messageData is.
MaxTypeMessage ==
    IF last.req.payload.messageData.t # "dict" THEN None
    ELSE Get(last.req.payload.messageData.typeMessage)

\* C13: on the Max -> Telegram receiver, an allowed event that passes the chat
\* filter and whose typeMessage is none of textMessage, extendedTextMessage,
\* imageMessage, videoMessage, documentMessage, audioMessage, voiceMessage (a
\* missing typeMessage included) is answered with status "unsupported", and
\* no client operation is called for it.
C13_UnmappedTypeIsUnsupported ==
    (/\ DispatchedMaxEvent
     /\ MaxTypeMessage \notin {"textMessage", "extendedTextMessage", "imageMessage",
                               "videoMessage", "documentMessage", "audioMessage",
                               "voiceMessage"})
        => (last.resp.status = "unsupported" /\ last.resp.code = 200 /\ last.calls = <<>>)

\* A sticker event from a known sender is answered as unsupported.
C13_Witness ==
    /\ DispatchedMaxEvent
    /\ last.req.payload.senderData = SenderAliceA
    /\ MaxTypeMessage = "stickerMessage"
    /\ last.resp.status = "unsupported"
    /\ last.resp.detail = "stickerMessage"

\* The last request is a Telegram message update that reached the receiver:
\* the direction is enabled, the secret check passed, the body parsed.
ReachedTelegramReceiver ==
    /\ OnTelegramWebhook
    /\ settings.enable_telegram_to_max
    /\ ~FailsTelegramSecret
    /\ last.req.body_ok
    /\ last.req.update.t = "update"
    /\ last.req.update.kind = "message"

\* C14: on the Telegram -> Max receiver, an update whose message matches none
\* of the mapped kinds (a command text starting with "/", a sticker) makes no
\* outbound send to Max and is answered with status "unsupported".
C14_UnmappedTelegramIsUnsupported ==
    (ReachedTelegramReceiver /\ ~MappedTelegramMessage(last.req.update.message))
        => (SendsTo("max") = {} /\ last.resp.status = "unsupported")

\* A Max event whose attachment is a plain URL string, rewritten with the
\* attachment as a structured object that holds the same downloadUrl.
AsStructuredAttachment(payload) ==
    [payload EXCEPT !.messageData.fileMessageData = FileDict(@.v, Missing)]

\* Two sequences of client calls send the same thing: as many calls, each
\* with the same operation, URL and caption.
SameSends(a, b) ==
    /\ Len(a) = Len(b)
    /\ \A i \in DOMAIN a :
          /\ a[i].op = b[i].op
          /\ a[i].url = b[i].url
          /\ a[i].text = b[i].text

\* C15: for every file kind (image, video, document, audio, voice), an event
\* whose attachment is a plain URL string is handled without an exception and
\* leads to the same outbound send (same URL, same caption) as the event with
\* the attachment given as a structured object with that downloadUrl.
C15_BothAttachmentShapes ==
    (/\ DispatchedMaxEvent
     /\ MaxTypeMessage \in FileMessageTypes
     /\ last.req.payload.messageData.fileMessageData.t = "str")
        => /\ last.resp.status = "success"
           /\ \A w \in MaxWorlds :
                 SameSends(last.calls,
                           WebhookHandler_handle_incoming_message(
                               AsStructuredAttachment(last.req.payload), w[1], w[2]).calls)

\* The headers the two formatters can build from the words Alice and alice99,
\* cut around one word: what may stand before it and what may stand after it.
HeaderWords == {"Alice", "alice99"}
HeaderOpens ==
    { lead \o open : lead \in {"", FromTelegramLabel},
                     open \in {"", PersonIcon \o " ", PersonIcon \o " <b>", "@"} }
HeaderJoints == {" | @", " | ", "</b> | @", "</b> | "}
HeaderCloses == {"", "</b>"}
HeaderBefore ==
    HeaderOpens \cup { o \o w \o j : o \in HeaderOpens, w \in HeaderWords, j \in HeaderJoints }
HeaderAfter ==
    HeaderCloses \cup { j \o w \o c : j \in HeaderJoints, w \in HeaderWords, c \in HeaderCloses }
Headers == { b \o w \o a : b \in HeaderBefore, w \in HeaderWords, a \in HeaderAfter }

\* The header h contains the word w.
Contains(h, w) == \E b \in HeaderBefore, a \in HeaderAfter : h = b \o w \o a

\* The text is a header that contains Alice and alice99, two newlines, Hello.
HelloUnderFullHeader(text) ==
    \E h \in Headers :
        /\ text = h \o "\n\n" \o "Hello"
        /\ Contains(h, "Alice")
        /\ Contains(h, "alice99")

\* The last request is the text Hello from Alice (handle alice99) on Max, or
\* on Telegram, and it is relayed.
HelloFromAliceOnMax ==
    /\ DispatchedMaxEvent
    /\ last.req.payload.senderData = SenderAlice99
    /\ last.req.payload.messageData = TextMessage("Hello")
HelloFromAliceOnTelegram ==
    /\ ReachedTelegramReceiver
    /\ ~FilteredTelegramEvent
    /\ last.req.update.message.text = "Hello"
    /\ last.req.update.message.from_user = TelegramUser("Alice", "alice99")

\* C16 as stated: in each direction, the text Hello from the sender named
\* Alice with the handle alice99 goes out as header, two newlines, Hello, and
\* the header contains both Alice and alice99.
C16_HeaderNamesBoth ==
    (HelloFromAliceOnMax \/ HelloFromAliceOnTelegram)
        => (Len(last.calls) = 1 /\ HelloUnderFullHeader(last.calls[1].text))

\* C16, amended: the text Hello from Alice (handle alice99) goes out to Max
\* under the header that names both, "<label><person-icon> Alice | @alice99",
\* and to Telegram under the header "<person-icon> <b>Alice</b>", which names
\* Alice only; two newlines and Hello follow the header in both.
C16_HelloFromAlice ==
    /\ HelloFromAliceOnMax =>
          /\ Len(last.calls) = 1
          /\ last.calls[1].dest = "telegram"
          /\ last.calls[1].text = PersonIcon \o " <b>Alice</b>" \o "\n\n" \o "Hello"
          /\ ~HelloUnderFullHeader(last.calls[1].text)
    /\ HelloFromAliceOnTelegram =>
          /\ Len(last.calls) = 1
          /\ last.calls[1].dest = "max"
          /\ last.calls[1].text =
                FromTelegramLabel \o PersonIcon \o " Alice | @alice99" \o "\n\n" \o "Hello"
          /\ HelloUnderFullHeader(last.calls[1].text)

\* Hello from Alice was sent to Telegram.
C16_Witness ==
    /\ HelloFromAliceOnMax
    /\ Len(last.calls) = 1
    /\ last.calls[1].sent
    /\ last.calls[1].ret = TRUE

\* A formatter has returned.
FormatterReturned ==
    last.req.endpoint \in {"TelegramClient._format_message", "GreenApiClient._format_message"}

\* C17: for both formatters, when the sender name and the sender handle are
\* both absent (None or empty), the returned text equals the input text.
C17_NoSenderNoHeader ==
    (/\ FormatterReturned
     /\ last.req.sender_name \in {None, ""}
     /\ last.req.sender_handle \in {None, ""})
        => last.resp.detail = last.req.text

\* GreenApiClient._format_message returned a two-paragraph text as it was,
\* for an empty name and no handle.
C17_Witness ==
    /\ last.req.endpoint = "GreenApiClient._format_message"
    /\ last.req.sender_name = ""
    /\ last.req.sender_handle = None
    /\ last.req.text = "Line 1\n\nLine 2"
    /\ last.resp.detail = "Line 1\n\nLine 2"

\* C18: GreenApiClient._format_message returns label, header, two newlines and
\* the original text, where the header is "<person-icon> name | @handle" when
\* both are present, "<person-icon> name" when only the name is, and "@handle"
\* when only the handle is.
C18_MaxHeader ==
    last.req.endpoint = "GreenApiClient._format_message" =>
        LET name == last.req.sender_name
            handle == last.req.sender_handle
            text == last.req.text
        IN  /\ (name \notin {None, ""} /\ handle \notin {None, ""}) =>
                  last.resp.detail = FromTelegramLabel \o PersonIcon \o " " \o name \o " | "
                                     \o "@" \o handle \o "\n\n" \o text
            /\ (name \notin {None, ""} /\ handle \in {None, ""}) =>
                  last.resp.detail = FromTelegramLabel \o PersonIcon \o " " \o name
                                     \o "\n\n" \o text
            /\ (name \in {None, ""} /\ handle \notin {None, ""}) =>
                  last.resp.detail = FromTelegramLabel \o "@" \o handle \o "\n\n" \o text

\* The header of a sender who has a handle and no name.
C18_Witness ==
    /\ last.req.endpoint = "GreenApiClient._format_message"
    /\ last.req.sender_name = None
    /\ last.req.sender_handle = "alice99"
    /\ last.req.text = "Hello"
    /\ last.resp.detail = FromTelegramLabel \o "@alice99" \o "\n\n" \o "Hello"

\* The sender name of the last Max event: senderName, else name, else None.
MaxSenderName ==
    LET sd == last.req.payload.senderData IN
    IF sd.t # "dict" THEN None
    ELSE IF sd.senderName \notin {Missing, None, ""} THEN sd.senderName
    ELSE IF sd.name \notin {Missing, None, ""} THEN sd.name
    ELSE None

\* A caption under the header Telegram gets for a sender name, and under the
\* header Max gets for a Telegram user; the caption alone for no sender.
UnderTelegramHeader(name, caption) ==
    IF name = None THEN caption
    ELSE PersonIcon \o " <b>" \o name \o "</b>" \o "\n\n" \o caption
UnderMaxHeader(user, caption) ==
    IF user.t = "null" THEN caption
    ELSE IF user.username = None
    THEN FromTelegramLabel \o PersonIcon \o " " \o user.full_name \o "\n\n" \o caption
    ELSE FromTelegramLabel \o PersonIcon \o " " \o user.full_name \o " | @" \o user.username
         \o "\n\n" \o caption

\* The last request is a photo, video or document event without a caption
\* that was relayed, on Max and on Telegram.
FileWithoutCaptionOnMax ==
    /\ DispatchedMaxEvent
    /\ MaxTypeMessage \in {"imageMessage", "videoMessage", "documentMessage"}
    /\ last.req.payload.messageData.caption = Missing
    /\ last.calls # <<>>
FileWithoutCaptionOnTelegram ==
    /\ ReachedTelegramReceiver
    /\ ~FilteredTelegramEvent
    /\ last.req.update.message.text = None
    /\ last.req.update.message.caption = None
    /\ \/ last.req.update.message.photo # None
       \/ last.req.update.message.video # None
       \/ last.req.update.message.document # None
    /\ last.calls # <<>>

\* C19: for a file message with no caption, in both directions, the default
\* caption of the kind (photo label, video label, document icon and filename)
\* goes out under the sender header when a sender is known and alone
\* otherwise, and a document goes out under the file name it came with.
C19_DefaultCaptionAttributed ==
    /\ FileWithoutCaptionOnMax =>
          LET md == last.req.payload.messageData
              c == last.calls[1]
              default == CASE MaxTypeMessage = "imageMessage" -> PhotoLabel
                           [] MaxTypeMessage = "videoMessage" -> VideoLabel
                           [] OTHER -> DocumentIcon \o " " \o c.filename
          IN  /\ Len(last.calls) = 1
              /\ c.text = UnderTelegramHeader(MaxSenderName, default)
              /\ (MaxTypeMessage = "documentMessage" /\ md.fileMessageData.fileName # Missing)
                    => c.filename = md.fileMessageData.fileName
    /\ FileWithoutCaptionOnTelegram =>
          LET m == last.req.update.message
              c == last.calls[1]
              default == CASE m.photo # None -> PhotoLabel
                           [] m.video # None -> VideoLabel
                           [] OTHER -> DocumentIcon \o " " \o c.filename
          IN  /\ Len(last.calls) = 1
              /\ c.text = UnderMaxHeader(m.from_user, default)
              /\ (m.document # None /\ m.file_name # None) => c.filename = m.file_name

\* The document report.pdf from Alice, without a caption, sent to Telegram.
C19_Witness ==
    /\ FileWithoutCaptionOnMax
    /\ MaxTypeMessage = "documentMessage"
    /\ last.req.payload.messageData.fileMessageData = FileDict(FileUrl, "report.pdf")
    /\ last.req.payload.senderData = SenderAliceA
    /\ last.calls[1].sent
    /\ last.calls[1].url = FileUrl
    /\ last.calls[1].filename = "report.pdf"
    /\ last.calls[1].text =
          PersonIcon \o " <b>Alice</b>" \o "\n\n" \o DocumentIcon \o " report.pdf"

\* C20: each webhook invocation, in either direction, makes at most one
\* client call, hence at most one outbound send; and client calls are made
\* only while a request that has just arrived is answered, so a send that
\* failed is not made again, in that invocation or after it.
C20_AtMostOneSendNoRetry ==
    /\ [](/\ Len(last.calls) <= 1
          /\ Cardinality(SendsTo("telegram") \cup SendsTo("max")) <= 1)
    /\ [][(last' # last /\ last'.calls # <<>>)
             => /\ last = NoRequest
                /\ last'.req.endpoint \in {"/webhook", "/telegram/webhook", "/test"}]_vars

\* A send to Max that failed: the POST raised, the operation returned False,
\* and the invocation ended with that one call.
C20_Witness ==
    /\ OnTelegramWebhook
    /\ Len(last.calls) = 1
    /\ last.calls[1].sent
    /\ last.calls[1].transport = "raise"
    /\ last.calls[1].ret = FALSE
    /\ last.resp.status = "success"

C22_NoFilterAcceptsAll ==
    /\ (ReachedMaxReceiver /\ settings.max_chat_id \in {None, ""}) =>
          /\ ~(last.resp.status = "ignored" /\ last.resp.detail = "chat_filter")
          /\ (/\ DispatchedMaxEvent
              /\ last.req.payload.messageData = TextMessage("Hello"))
                => (Len(last.calls) = 1 /\ last.calls[1].sent)
    /\ (/\ ReachedTelegramReceiver
        /\ settings.telegram_chat_id \in {None, ""}
        /\ last.req.update.message.text = "Hello")
          => (Len(last.calls) = 1 /\ last.calls[1].sent)

\* With an empty Telegram filter a text from chat B is sent to Max.
C22_Witness ==
    /\ ReachedTelegramReceiver
    /\ settings.telegram_chat_id = ""
    /\ last.req.update.message.chat_id = TgChatB
    /\ last.req.update.message.text = "Hello"
    /\ Len(last.calls) = 1
    /\ last.calls[1].sent

\* The typeWebhook of the last Max event is on the allow-list.
AllowedMaxEvent ==
    last.req.payload.typeWebhook \in
        {"incomingMessageReceived", "incomingCall", "outgoingMessageReceived",
         "outgoingAPIMessageReceived"}

\* C23: on each enabled webhook endpoint the checks are decided in the order
\* authentication, event-type filter, chat filter, classification.  A request
\* (with a JSON body) that fails the secret check is answered with the
\* outcome of that check and nothing of its payload is classified or
\* dispatched; a Max event of a disallowed type is answered not_a_message
\* whatever its chat; an allowed Max event from a filtered chat is answered
\* chat_filter whatever its message type, and a filtered Telegram message
\* is not dispatched.
C23_CheckOrder ==
    /\ (FailsMaxSecret /\ settings.enable_max_to_telegram /\ last.req.body_ok) =>
          /\ last.resp.detail = "HTTPException"
          /\ last.resp.status = "error"
          /\ last.calls = <<>>
    /\ (FailsTelegramSecret /\ settings.enable_telegram_to_max) =>
          /\ last.resp.detail = "HTTPException"
          /\ last.resp.status = "error"
          /\ last.calls = <<>>
    /\ (ReachedMaxReceiver /\ ~AllowedMaxEvent) =>
          /\ last.resp.status = "ignored"
          /\ last.resp.detail = "not_a_message"
          /\ last.calls = <<>>
    /\ (/\ ReachedMaxReceiver /\ AllowedMaxEvent /\ FilteredMaxEvent
        /\ last.req.payload.senderData.t \in {"dict", "missing"}) =>
          /\ last.resp.status = "ignored"
          /\ last.resp.detail = "chat_filter"
          /\ last.calls = <<>>
    /\ (ReachedTelegramReceiver /\ FilteredTelegramEvent) => last.calls = <<>>

\* An event of a disallowed type from a chat the filter excludes is reported
\* as not_a_message.
C23_Witness ==
    /\ ReachedMaxReceiver
    /\ ~AllowedMaxEvent
    /\ FilteredMaxEvent
    /\ settings.max_chat_id = ChatA
    /\ last.req.payload.typeWebhook = "stateInstanceChanged"
    /\ last.req.payload.senderData.t = "dict"
    /\ last.req.payload.senderData.chatId = ChatB
    /\ last.resp.detail = "not_a_message"

\* The last Max event has one of the seven supported message types.
SupportedMaxEvent ==
    /\ DispatchedMaxEvent
    /\ MaxTypeMessage \in {"textMessage", "extendedTextMessage"} \cup FileMessageTypes

\* The send of the last request was made and returned (True or False).
SendReturned ==
    /\ Len(last.calls) = 1
    /\ last.calls[1].exc = NoExc

\* The handler of the last Max event had nothing to send: the text is absent
\* or empty, or the attachment holds no downloadUrl.
SendSkipped ==
    LET md == last.req.payload.messageData IN
    CASE MaxTypeMessage = "textMessage" ->
            \/ md.textMessageData.t = "missing"
            \/ md.textMessageData.t = "dict" /\ md.textMessageData.textMessage \in {Missing, ""}
      [] MaxTypeMessage = "extendedTextMessage" ->
            \/ md.extendedTextMessageData.t = "missing"
            \/ md.extendedTextMessageData.t = "dict"
                  /\ md.extendedTextMessageData.text \in {Missing, ""}
      [] MaxTypeMessage \in {"imageMessage", "videoMessage"} ->
            \/ md.fileMessageData.t \in {"missing", "null"} /\ md.downloadUrl = Missing
            \/ md.fileMessageData.t = "dict" /\ md.fileMessageData.downloadUrl = Missing
      [] OTHER ->
            \/ md.fileMessageData.t \in {"missing", "null"}
            \/ md.fileMessageData.t = "dict" /\ md.fileMessageData.downloadUrl = Missing

\* C24: on the Max -> Telegram receiver, an allowed event of a supported
\* message type that passes the chat filter is answered with status "success"
\* whether the send returned True, returned False, or was skipped because
\* the text was empty or the attachment URL was missing.
C24_SuccessWhateverTheSend ==
    (SupportedMaxEvent /\ (SendReturned \/ SendSkipped))
        => (last.resp.status = "success" /\ last.resp.code = 200)

\* A photo whose send to Telegram returned False is answered "success".
C24_Witness ==
    /\ SupportedMaxEvent
    /\ MaxTypeMessage = "imageMessage"
    /\ SendReturned
    /\ last.calls[1].sent
    /\ last.calls[1].ret = FALSE
    /\ last.resp.status = "success"

\* A text event with an empty text is answered "success" and nothing is sent.
SkippedSendAnsweredSuccess ==
    /\ SupportedMaxEvent
    /\ SendSkipped
    /\ last.calls = <<>>
    /\ last.resp.status = "success"

\* C25: in every state after startup has completed, if Telegram -> Max is
\* enabled the global telegram_webhook_handler is initialized, also when the
\* webhook registration failed, and no request to POST /telegram/webhook is
\* answered "Handler not initialized".
C25_HandlerInitialized ==
    /\ (phase \in {"serving", "stopped"} /\ settings.enable_telegram_to_max)
          => telegram_webhook_handler # None
    /\ OnTelegramWebhook => last.resp.detail # "Handler not initialized"

\* A Telegram text is relayed by an application whose webhook registration
\* failed at startup.
C25_Witness ==
    /\ phase = "serving"
    /\ settings.enable_telegram_to_max
    /\ settings.telegram_webhook_url # None
    /\ ~webhook_registered
    /\ ReachedTelegramReceiver
    /\ last.req.update.message.text = "Hello"
    /\ Len(last.calls) = 1
    /\ last.resp.status = "success"

\* The values senderData.sender takes in the events compared: absent, null
\* and three identifiers.
OtherSenders == {Missing, None, ChatA, ChatB, ChatAlice99}

\* What the receiver calls for the last Max event when its senderData.sender
\* is replaced by s and everything else is kept.
CallsWithSender(s) ==
    WebhookHandler_handle_incoming_message(
        [last.req.payload EXCEPT !.senderData.sender = s], "ok", "ok").calls

\* C26: in the Max -> Telegram direction the sender's phone does not reach
\* the outbound message: the event of the last request and every event that
\* differs from it in senderData.sender only go out with the same operation,
\* URL and text or caption; and with a chatId present and a sender that is a
\* string or absent, the other event goes out as well.
C26_SenderNotInOutboundText ==
    (/\ ReachedMaxReceiver
     /\ last.req.payload.senderData.t = "dict"
     /\ last.calls # <<>>)
        => \A s \in OtherSenders :
              LET other == CallsWithSender(s) IN
              /\ other # <<>> =>
                    /\ Len(other) = 1
                    /\ other[1].op = last.calls[1].op
                    /\ other[1].url = last.calls[1].url
                    /\ other[1].text = last.calls[1].text
              /\ (last.req.payload.senderData.chatId \notin {Missing, None, ""} /\ s # None)
                    => other # <<>>

\* A photo from Alice goes out under her name; her sender identifier is not
\* in the caption.
C26_Witness ==
    /\ ReachedMaxReceiver
    /\ last.req.payload.senderData = SenderAliceA
    /\ MaxTypeMessage = "imageMessage"
    /\ Len(last.calls) = 1
    /\ last.calls[1].sent
    /\ last.calls[1].text = PersonIcon \o " <b>Alice</b>" \o "\n\n" \o PhotoLabel
    /\ CallsWithSender(ChatB) # <<>>
    /\ CallsWithSender(ChatB)[1].text = last.calls[1].text

=============================================================================
